---- MODULE Spec2Model ----
(***************************************************************************)
(* ThrowStream: an exception class that accumulates a backtrace-like       *)
(* description (src/ThrowStream.h), and the nested throw / catch / rethrow *)
(* protocol of its example program (src/examples/ThrowStream_example.cpp). *)
(*                                                                         *)
(* A character is a one-character string; the NUL character is the token   *)
(* NUL.  A std::string is a sequence of characters (it may hold NUL), a    *)
(* char array reached through a const char* is a sequence of characters    *)
(* that holds a terminating NUL.                                           *)
(***************************************************************************)
EXTENDS Integers, Sequences, FiniteSets, TLC

VARIABLES
    EXCEPTIONSOURCE, \* whether THROWSTREAM_EXCEPTIONSOURCE is defined (build time)
    alive,           \* the ThrowStream objects constructed so far
    desc,            \* desc[o]: the member _desc of object o
    os,              \* the characters written to the ostream so far
    ret,             \* the character array the last what() returned
    hist,            \* the member calls made so far, each with desc before it
    pc,              \* example program: where the control is
    thrown,          \* example program: _desc of the exception in flight
    trail,           \* example program: the (location, text) of each frame passed
    out              \* example program: what main printed from ex.what()

vars == <<EXCEPTIONSOURCE, alive, desc, os, ret, hist, pc, thrown, trail, out>>

classVars == <<alive, desc, os, ret, hist>>
chainVars == <<pc, thrown, trail, out>>

(***************************************************************************)
(* Bounds                                                                  *)
(***************************************************************************)
MaxObj == 2      \* ThrowStream objects in the pool
MaxOps == 3      \* member calls in one behaviour
MaxFrames == 3   \* nested frames an exception passes through

Objs == 1..MaxObj

(***************************************************************************)
(* Characters and formatting                                               *)
(***************************************************************************)
NUL == "NUL"
NL == "\n"

\* the characters of an array up to, not including, its first NUL: how a
\* const char* is read by operator<<(ostream &, const char *)
CStr(a) ==
    LET nuls == { i \in 1..Len(a) : a[i] = NUL }
        first == CHOOSE i \in nuls : \A j \in nuls : i <= j
    IN  IF nuls = {} THEN a ELSE SubSeq(a, 1, first - 1)

Digit(d) == <<"0", "1", "2", "3", "4", "5", "6", "7", "8", "9">>[d + 1]

\* operator<<(ostream &, unsigned long): decimal, no padding (a line number
\* is what __LINE__ expands to, a positive int, which unsigned long holds)
RECURSIVE Dec(_)
Dec(n) == IF n < 10 THEN <<Digit(n)>> ELSE Dec(n \div 10) \o <<Digit(n % 10)>>

\* ss << rhs for the streamable types the callers use
Format(rhs) ==
    CASE rhs.type = "cstr"   -> CStr(rhs.v)
      [] rhs.type = "string" -> rhs.v
      [] rhs.type = "int"    -> IF rhs.v < 0 THEN <<"-">> \o Dec(-rhs.v)
                                             ELSE Dec(rhs.v)

(***************************************************************************)
(* Inputs                                                                  *)
(***************************************************************************)
\* __FILE__ in the example program
example_cpp ==
    <<"T", "h", "r", "o", "w", "S", "t", "r", "e", "a", "m", "_", "e", "x",
      "a", "m", "p", "l", "e", ".", "c", "p", "p">>
\* a file and a function of some other caller
a_txt == <<"a", ".", "t", "x", "t">>
fn_f == <<"f">>
\* __FUNCTION__ in the example program
Inverse == <<"I", "n", "v", "e", "r", "s", "e">>
MultiplyInverse == <<"M", "u", "l", "t", "i", "p", "l", "y",
                     "I", "n", "v", "e", "r", "s", "e">>

Loc(l, f, fn) == [line |-> l, file |-> f, function |-> fn]

\* what __LINE__, __FILE__ and __FUNCTION__ expand to where Inverse throws
\* and where MultiplyInverse rethrows
InInverse == Loc(21, example_cpp, Inverse)
InMultiplyInverse == Loc(34, example_cpp, MultiplyInverse)
Elsewhere == Loc(10, a_txt, fn_f)

\* call sites of member calls
Locs == { InInverse, Elsewhere }

\* call sites of the nested frames of the example program
Frames == Locs \cup { InMultiplyInverse }

\* values streamed into a ThrowStream: a string literal, a std::string
\* (which may hold any character) and an int
Values == { [type |-> "cstr", v |-> <<"E", "r", "r", NUL>>],
            [type |-> "string", v |-> <<NL, NUL, "b">>],
            [type |-> "int", v |-> -30] }

\* exceptions that are no ThrowStream: what() is all such an exception has
Foreign == { [kind |-> "exception", what |-> <<"b", "o", "o", "m", NUL>>],
             [kind |-> "exception", what |-> <<NUL>>] }

\* a ThrowStream whose _desc is d, seen through a const exception &
AsException(d) == [kind |-> "ThrowStream", desc |-> d]

(***************************************************************************)
(* class ThrowStream                                                       *)
(***************************************************************************)

\* Append with the file and the function exchanged in the tag
AppendLoc_SwapFields(d, line, file, function) ==
    LET ss0 == <<NL>>
        ss1 == IF EXCEPTIONSOURCE
               THEN ss0 \o <<"(", " ">> \o function \o <<":">> \o Dec(line)
                        \o <<" ", ",", " ", "i", "n", " ">> \o file
                        \o <<"(", ")", " ", ")", " ", " ", " ", " ",
                             "-", ">", " ", " ">>
               ELSE ss0
    IN  d \o ss1

\* Append that forgets the #ifdef and always writes the tag
AppendLoc_AlwaysTag(d, line, file, function) ==
    d \o <<NL>> \o <<"(", " ">> \o file \o <<":">> \o Dec(line)
      \o <<" ", ",", " ", "i", "n", " ">> \o function
      \o <<"(", ")", " ", ")", " ", " ", " ", " ", "-", ">", " ", " ">>

\* ThrowStream & Append(line, file, function): the new _desc
AppendLoc(d, line, file, function) ==
    LET ss0 == <<NL>>
        ss1 == IF EXCEPTIONSOURCE
               THEN ss0 \o <<"(", " ">> \o file \o <<":">> \o Dec(line)
                        \o <<" ", ",", " ", "i", "n", " ">> \o function
                        \o <<"(", ")", " ", ")", " ", " ", " ", " ",
                             "-", ">", " ", " ">>
               ELSE ss0
    IN  d \o ss1

\* operator<< that puts a blank between what it is given and what is there
StreamIn_Separator(d, rhs) == d \o <<" ">> \o Format(rhs)

\* template<typename T> ThrowStream & operator<<(const T & rhs): the new _desc
StreamIn(d, rhs) ==
    LET ss == Format(rhs)
    IN  d \o ss

\* dynamic_cast<const ThrowStream *>(&ex) is not null
IsThrowStream(ex) == ex.kind = "ThrowStream"

\* Append(ex, ...) without the dynamic_cast: every exception goes through what()
AppendEx_NoCast(d, ex, line, file, function) ==
    LET w == IF IsThrowStream(ex) THEN ex.desc \o <<NUL>> ELSE ex.what
        d1 == StreamIn(AppendLoc(d, line, file, function),
                       [type |-> "cstr", v |-> w])
    IN  AppendLoc(d1, line, file, function)

\* Append(ex, ...) whose foreign branch streams what() without Append first
AppendEx_OneMarker(d, ex, line, file, function) ==
    LET d1 == IF IsThrowStream(ex)
              THEN d \o ex.desc
              ELSE StreamIn(d, [type |-> "cstr", v |-> ex.what])
    IN  AppendLoc(d1, line, file, function)

\* Append(ex, ...) that assigns the other description instead of appending it
AppendEx_Assign(d, ex, line, file, function) ==
    LET d1 == IF IsThrowStream(ex)
              THEN ex.desc
              ELSE StreamIn(AppendLoc(d, line, file, function),
                            [type |-> "cstr", v |-> ex.what])
    IN  AppendLoc(d1, line, file, function)

\* Append(ex, ...) without the closing Append(line, file, function)
AppendEx_NoFinal(d, ex, line, file, function) ==
    IF IsThrowStream(ex)
    THEN d \o ex.desc
    ELSE StreamIn(AppendLoc(d, line, file, function),
                  [type |-> "cstr", v |-> ex.what])

\* ThrowStream & Append(ex, line, file, function): the new _desc
AppendEx(d, ex, line, file, function) ==
    LET d1 == IF IsThrowStream(ex)
              THEN d \o ex.desc
              ELSE StreamIn(AppendLoc(d, line, file, function),
                            [type |-> "cstr", v |-> ex.what])
    IN  AppendLoc(d1, line, file, function)

\* what() that returns c_str() of a copy that is gone when it returns
what_Temporary(d) == <<NUL>>

\* char const * what() const: the array _desc.c_str() points to
what(d) == d \o <<NUL>>

\* ostream & operator<<(ostream & os, const ThrowStream & ts): the new stream
StreamOut(s, d) == s \o d

\* ThrowStream(line, file, function): _desc of the new object
ThrowStream(line, file, function) == AppendLoc(<<>>, line, file, function)

\* copying constructor that tags the new frame before it copies the history
ThrowStreamCopy_MarkerFirst(ex, line, file, function) ==
    IF IsThrowStream(ex)
    THEN AppendLoc(<<>>, line, file, function) \o ex.desc
    ELSE AppendEx(<<>>, ex, line, file, function)

\* ThrowStream(ex, line, file, function): _desc of the new object
ThrowStreamCopy(ex, line, file, function) ==
    AppendEx(<<>>, ex, line, file, function)

(***************************************************************************)
(* Member calls on a pool of objects.  An exception argument is either the *)
(* object x of the pool (it may be the receiver itself) or a foreign one.  *)
(***************************************************************************)
Ref(o) == [kind |-> "ThrowStream", id |-> o]

Args == { Ref(o) : o \in alive } \cup Foreign

Deref(x) == IF x.kind = "ThrowStream" THEN AsException(desc[x.id]) ELSE x

\* _desc declared static: one buffer for all objects
Store_Static(ds, o, d) == [p \in DOMAIN ds |-> d]

\* string _desc is a member of each object: a member function that changes
\* _desc changes that of its own object
Store(ds, o, d) == [ds EXCEPT ![o] = d]

\* return *this, through the return type ThrowStream &: the next call of a
\* chained expression is made on the receiver itself.  Object 0 stands for a
\* temporary, which is in no pool and is dropped at the end of the statement.
ReturnThis(o) == o

Snapshot(c) == [call |-> c, before |-> desc, osBefore |-> os, retBefore |-> ret]

Called(c) ==
    /\ Len(hist) < MaxOps
    /\ hist' = Append(hist, Snapshot(c))
    /\ UNCHANGED <<EXCEPTIONSOURCE, chainVars>>

\* the pool hands out its objects in order
Fresh(o) == o \in Objs \ alive /\ \A p \in Objs : p < o => p \in alive

Construct(o, loc) ==
    /\ Fresh(o)
    /\ alive' = alive \cup {o}
    /\ desc' = Store(desc, o, ThrowStream(loc.line, loc.file, loc.function))
    /\ UNCHANGED <<os, ret>>
    /\ Called([op |-> "ThrowStream", obj |-> o, loc |-> loc])

ConstructCopy(o, x, loc) ==
    /\ Fresh(o)
    /\ alive' = alive \cup {o}
    /\ desc' = Store(desc, o, ThrowStreamCopy(Deref(x), loc.line, loc.file,
                                              loc.function))
    /\ UNCHANGED <<os, ret>>
    /\ Called([op |-> "ThrowStreamCopy", obj |-> o, ex |-> x, loc |-> loc])

CallAppendLoc(o, loc) ==
    /\ o \in alive
    /\ desc' = Store(desc, o, AppendLoc(desc[o], loc.line, loc.file,
                                        loc.function))
    /\ UNCHANGED <<alive, os, ret>>
    /\ Called([op |-> "Append", obj |-> o, loc |-> loc])

CallAppendEx(o, x, loc) ==
    /\ o \in alive
    /\ desc' = Store(desc, o, AppendEx(desc[o], Deref(x), loc.line, loc.file,
                                       loc.function))
    /\ UNCHANGED <<alive, os, ret>>
    /\ Called([op |-> "AppendEx", obj |-> o, ex |-> x, loc |-> loc])

\* o << rhs;
CallStreamIn(o, rhs) ==
    /\ o \in alive
    /\ desc' = Store(desc, o, StreamIn(desc[o], rhs))
    /\ UNCHANGED <<alive, os, ret>>
    /\ Called([op |-> "operator<<", obj |-> o, rhs |-> rhs, chained |-> FALSE])

\* o << v1 << v2;  two calls of operator<<, the second on what the first returns
CallStreamInChain(o, v1, v2) ==
    /\ o \in alive
    /\ Len(hist) + 2 <= MaxOps
    /\ LET d1 == Store(desc, o, StreamIn(desc[o], v1))
           r == ReturnThis(o)
           c1 == [op |-> "operator<<", obj |-> o, rhs |-> v1, chained |-> FALSE]
           c2 == [op |-> "operator<<", obj |-> r, rhs |-> v2, chained |-> TRUE]
       IN  /\ desc' = IF r \in Objs THEN Store(d1, r, StreamIn(d1[r], v2)) ELSE d1
           /\ hist' = hist \o <<Snapshot(c1),
                                [call |-> c2, before |-> d1, osBefore |-> os,
                                 retBefore |-> ret]>>
    /\ UNCHANGED <<EXCEPTIONSOURCE, alive, os, ret, chainVars>>

CallWhat(o) ==
    /\ o \in alive
    /\ ret' = what(desc[o])
    /\ UNCHANGED <<alive, desc, os>>
    /\ Called([op |-> "what", obj |-> o])

CallStreamOut(o) ==
    /\ o \in alive
    /\ os' = StreamOut(os, desc[o])
    /\ UNCHANGED <<alive, desc, ret>>
    /\ Called([op |-> "ostream<<", obj |-> o])

Init ==
    /\ EXCEPTIONSOURCE \in BOOLEAN
    /\ alive = {}
    /\ desc = [o \in Objs |-> <<>>]
    /\ os = <<>>
    /\ ret = <<>>
    /\ hist = <<>>
    /\ pc = "main"
    /\ thrown = <<>>
    /\ trail = <<>>
    /\ out = <<>>

Next ==
    \/ \E o \in Objs, loc \in Locs : Construct(o, loc)
    \/ \E o \in Objs, x \in Args, loc \in Locs : ConstructCopy(o, x, loc)
    \/ \E o \in Objs, loc \in Locs : CallAppendLoc(o, loc)
    \/ \E o \in Objs, x \in Args, loc \in Locs : CallAppendEx(o, x, loc)
    \/ \E o \in Objs, rhs \in Values : CallStreamIn(o, rhs)
    \/ \E o \in Objs, v1, v2 \in Values : CallStreamInChain(o, v1, v2)
    \/ \E o \in Objs : CallWhat(o)
    \/ \E o \in Objs : CallStreamOut(o)

Spec == Init /\ [][Next]_vars

(***************************************************************************)
(* The example program: an exception is thrown in the innermost call, each *)
(* enclosing frame catches it and throws a ThrowStream built from it, and  *)
(* main prints what() of the one that reaches it.  A throw expression      *)
(* copies the ThrowStream it is given.                                     *)
(***************************************************************************)

\* Inverse: THROWSTREAM << rhs
Throw(loc, rhs) ==
    /\ pc = "main"
    /\ thrown' = StreamIn(ThrowStream(loc.line, loc.file, loc.function), rhs)
    /\ trail' = <<[loc |-> loc, rhs |-> rhs]>>
    /\ pc' = "unwinding"
    /\ UNCHANGED <<EXCEPTIONSOURCE, classVars, out>>

\* MultiplyInverse: catch(exception & ex) { THROWSTREAMAPPEND(ex) << rhs; }
CatchRethrow(loc, rhs) ==
    /\ pc = "unwinding"
    /\ Len(trail) < MaxFrames
    /\ thrown' = StreamIn(ThrowStreamCopy(AsException(thrown), loc.line,
                                          loc.file, loc.function), rhs)
    /\ trail' = Append(trail, [loc |-> loc, rhs |-> rhs])
    /\ UNCHANGED <<EXCEPTIONSOURCE, classVars, pc, out>>

\* main: catch(const exception & ex) { cout << ex.what(); }
CatchPrint ==
    /\ pc = "unwinding"
    /\ out' = CStr(what(thrown))
    /\ pc' = "done"
    /\ UNCHANGED <<EXCEPTIONSOURCE, classVars, thrown, trail>>

ChainNext ==
    \/ \E loc \in Frames, rhs \in Values : Throw(loc, rhs)
    \/ \E loc \in Frames, rhs \in Values : CatchRethrow(loc, rhs)
    \/ CatchPrint

ChainSpec == Init /\ [][ChainNext]_vars

(***************************************************************************)
(* What the specification expects, stated without the code's operators     *)
(***************************************************************************)
Numeral(n) ==
    CASE n = 10 -> <<"1", "0">>
      [] n = 21 -> <<"2", "1">>
      [] n = 34 -> <<"3", "4">>

\* "( <file>:<line> , in <function>() )    ->  "
Tag(loc) ==
    <<"(", " ">> \o loc.file \o <<":">> \o Numeral(loc.line)
      \o <<" ", ",", " ", "i", "n", " ">> \o loc.function
      \o <<"(", ")", " ", ")">> \o <<" ", " ", " ", " ">> \o <<"-", ">">>
      \o <<" ", " ">>

\* one frame marker: a newline, then the tag when the detail flag is enabled
FrameMarker(loc) == IF EXCEPTIONSOURCE THEN <<NL>> \o Tag(loc) ELSE <<NL>>

IsPrefix(s, t) == Len(s) <= Len(t) /\ SubSeq(t, 1, Len(s)) = s

CountNL(s) == Cardinality({ i \in DOMAIN s : s[i] = NL })

\* the string a caller reads from what()
Message(d) == CStr(what(d))

N == Len(hist)
Call == hist[N].call
Before == hist[N].before
After(i) == IF i = N THEN desc ELSE hist[i + 1].before

IsTS(x) == x.kind = "ThrowStream"

\* "\n( ThrowStream_example.cpp:21 , in Inverse() )    ->  "
Line21Marker ==
    <<NL, "(", " ", "T", "h", "r", "o", "w", "S", "t", "r", "e", "a", "m",
      "_", "e", "x", "a", "m", "p", "l", "e", ".", "c", "p", "p", ":", "2",
      "1", " ", ",", " ", "i", "n", " ", "I", "n", "v", "e", "r", "s", "e",
      "(", ")", " ", ")", " ", " ", " ", " ", "-", ">", " ", " ">>

\* "\n( a.txt:10 , in f() )    ->  "
Line10Marker ==
    <<NL, "(", " ", "a", ".", "t", "x", "t", ":", "1", "0", " ", ",", " ",
      "i", "n", " ", "f", "(", ")", " ", ")", " ", " ", " ", " ", "-", ">",
      " ", " ">>

(***************************************************************************)
(* C1  Origination: right after ThrowStream(line, file, function) the      *)
(* description of the new object, and the message read from its what(), is *)
(* exactly "\n" when the detail flag is disabled and exactly               *)
(* "\n( file:line , in function() )    ->  " when it is enabled.           *)
(***************************************************************************)
C1_Origination ==
    (N > 0 /\ Call.op = "ThrowStream") =>
        LET d == desc[Call.obj]
        IN  /\ EXCEPTIONSOURCE => d = <<NL>> \o Tag(Call.loc)
            /\ ~EXCEPTIONSOURCE => d = <<NL>>
            /\ Message(d) = d
            /\ Call.loc = InInverse /\ EXCEPTIONSOURCE
                 => d = Line21Marker
            /\ Call.loc = Elsewhere /\ EXCEPTIONSOURCE
                 => d = Line10Marker

C1_Witness ==
    /\ N > 0
    /\ Call.op = "ThrowStream"
    /\ EXCEPTIONSOURCE
    /\ Call.loc = InInverse
    /\ Message(desc[Call.obj]) = Line21Marker

C3_ForeignKind ==
    (N > 0 /\ Call.op = "ThrowStreamCopy" /\ ~IsTS(Call.ex)) =>
        LET m == CStr(Call.ex.what)
            M == FrameMarker(Call.loc)
            d == desc[Call.obj]
        IN  /\ d = M \o m \o M
            /\ Message(d) = M \o m \o M
            /\ CountNL(d) = 2

Boom == <<"b", "o", "o", "m">>

C3_Witness ==
    /\ N > 0
    /\ Call.op = "ThrowStreamCopy"
    /\ ~IsTS(Call.ex)
    /\ EXCEPTIONSOURCE
    /\ Call.loc = Elsewhere
    /\ desc[Call.obj] = Line10Marker \o Boom \o Line10Marker

(***************************************************************************)
(* C4  One call of Append(line, file, function), in any state of the       *)
(* object, extends _desc by exactly one newline (flag disabled) or one     *)
(* newline and the tag of that triple (flag enabled) and nothing else;     *)
(* what later operator<< calls append comes after it, in call order.       *)
(***************************************************************************)
RECURSIVE Texts(_, _)
\* the text of the calls i..j of hist, all of them operator<<
Texts(i, j) == IF i > j THEN <<>> ELSE Format(hist[i].call.rhs) \o Texts(i + 1, j)

\* the calls i..j are operator<< calls on object o
Streamed(o, i, j) ==
    \A k \in i..j : hist[k].call.op = "operator<<" /\ hist[k].call.obj = o

C4_AppendLocation ==
    \A i \in 1..N :
        hist[i].call.op = "Append" =>
            LET o == hist[i].call.obj
                loc == hist[i].call.loc
                B == hist[i].before[o]
            IN  /\ After(i)[o] = B \o FrameMarker(loc)
                /\ Len(After(i)[o]) - Len(B)
                     = IF EXCEPTIONSOURCE THEN 1 + Len(Tag(loc)) ELSE 1
                /\ After(i)[o][Len(B) + 1] = NL
                /\ \A j \in i..N :
                       Streamed(o, i + 1, j) =>
                           After(j)[o] = B \o FrameMarker(loc) \o Texts(i + 1, j)

C4_Witness ==
    /\ N = 3
    /\ hist[2].call.op = "Append"
    /\ Streamed(hist[2].call.obj, 3, 3)
    /\ ~EXCEPTIONSOURCE
    /\ desc[1] = <<NL, NL>> \o Format(Call.rhs)

C6_AppendOnly ==
    \A i \in 1..N : \A o \in Objs :
        /\ IsPrefix(hist[i].before[o], After(i)[o])
        /\ Len(hist[i].before[o]) <= Len(After(i)[o])

C6_Witness ==
    /\ N = 3
    /\ Call.op = "AppendEx"
    /\ IsTS(Call.ex)
    /\ Call.ex.id # Call.obj
    /\ Before[Call.obj] # Before[Call.ex.id]
    /\ IsPrefix(Before[Call.obj], desc[Call.obj])
    /\ Len(desc[Call.obj]) > Len(Before[Call.obj])

(***************************************************************************)
(* C7  Oldest first: an exception that originates in frame 1 with text t1  *)
(* and is rethrown through frames 2..n, each building a ThrowStream from   *)
(* the one it caught and streaming its text tk, carries                    *)
(* marker(1) t1 marker(2) t2 ... marker(n) tn: the origin first, each      *)
(* frame begun by its own newline, n markers in all.                       *)
(***************************************************************************)
RECURSIVE ExpectedTrail(_)
ExpectedTrail(t) ==
    IF t = <<>> THEN <<>>
    ELSE ExpectedTrail(SubSeq(t, 1, Len(t) - 1))
           \o FrameMarker(t[Len(t)].loc) \o Format(t[Len(t)].rhs)

RECURSIVE TextNL(_)
TextNL(t) ==
    IF t = <<>> THEN 0 ELSE CountNL(Format(Head(t).rhs)) + TextNL(Tail(t))

IsRead(c) == c.op \in {"what", "ostream<<"}

\* _desc of the receiver of call c as the specification has it, from the
\* descriptions ds before the call
Expected(c, ds) ==
    CASE c.op = "ThrowStream" -> FrameMarker(c.loc)
      [] c.op = "Append" -> ds[c.obj] \o FrameMarker(c.loc)
      [] c.op = "operator<<" -> ds[c.obj] \o Format(c.rhs)
      [] c.op \in {"ThrowStreamCopy", "AppendEx"} ->
             IF IsTS(c.ex)
             THEN ds[c.obj] \o ds[c.ex.id] \o FrameMarker(c.loc)
             ELSE ds[c.obj] \o FrameMarker(c.loc) \o CStr(c.ex.what)
                    \o FrameMarker(c.loc)

HasNUL(d) == \E i \in DOMAIN d : d[i] = NUL

\* C8 as claimed: the string read from what() is the whole buffer
C8_MessageIsWholeBuffer ==
    (N > 0 /\ Call.op = "what") => CStr(ret) = desc[Call.obj]

\* C8 as amended: what() and operator<<(ostream &, ...) leave _desc
\* unchanged; the string read from what() is _desc up to its first NUL
\* character, which is the whole of _desc when it holds none; two what()
\* calls in a row return the same; operator<<(ostream &, ...) writes exactly
\* _desc; a call that appends after a read has the effect it would have had
\* without the read.
C8_ReadsPure ==
    /\ (N > 0 /\ Call.op = "what") =>
           LET m == CStr(ret)
               d == desc[Call.obj]
           IN  /\ desc = Before
               /\ os = hist[N].osBefore
               /\ IsPrefix(m, d)
               /\ ~HasNUL(m)
               /\ Len(m) < Len(d) => d[Len(m) + 1] = NUL
               /\ ~HasNUL(d) => m = d
    /\ (N > 1 /\ Call.op = "what" /\ hist[N - 1].call = Call) =>
           ret = hist[N].retBefore
    /\ (N > 0 /\ Call.op = "ostream<<") =>
           /\ desc = Before
           /\ ret = hist[N].retBefore
           /\ os = hist[N].osBefore \o desc[Call.obj]
    /\ (N > 1 /\ IsRead(hist[N - 1].call) /\ ~IsRead(Call) /\ Call.obj \in Objs) =>
           desc[Call.obj] = Expected(Call, hist[N - 1].before)

C8_Witness ==
    /\ N = 3
    /\ Call.op = "what"
    /\ HasNUL(desc[Call.obj])
    /\ CStr(ret) # desc[Call.obj]
    /\ IsPrefix(CStr(ret), desc[Call.obj])
    /\ desc = Before

(***************************************************************************)
(* C9  Append(other, l, f, fn) on a receiver whose _desc is B gives        *)
(* B C marker when other is a ThrowStream whose _desc is C, and            *)
(* B marker m marker when other is a foreign exception with message m: B   *)
(* stays as a prefix and one marker for (l, f, fn) comes last.             *)
(***************************************************************************)
EndsWith(d, s) ==
    Len(s) <= Len(d) /\ SubSeq(d, Len(d) - Len(s) + 1, Len(d)) = s

C9_AppendFromMerges ==
    (N > 0 /\ Call.op = "AppendEx") =>
        LET B == Before[Call.obj]
            M == FrameMarker(Call.loc)
            d == desc[Call.obj]
        IN  /\ B # <<>>
            /\ IsTS(Call.ex) => d = B \o Before[Call.ex.id] \o M
            /\ ~IsTS(Call.ex) => d = B \o M \o CStr(Call.ex.what) \o M
            /\ IsPrefix(B, d)
            /\ EndsWith(d, M)

C9_Witness ==
    /\ N = 3
    /\ Call.op = "AppendEx"
    /\ Call.obj = 1
    /\ Call.ex = Ref(2)
    /\ Before[1] # Before[2]
    /\ desc[1] = Before[1] \o Before[2] \o FrameMarker(Call.loc)

(***************************************************************************)
(* C10  Absorbing an exception leaves it as it was, and nothing is shared: *)
(* a member call changes _desc of its receiver only, so the exception      *)
(* copied from and the ThrowStream built from it change independently.     *)
(***************************************************************************)
C10_NoSharing ==
    \A i \in 1..N : \A p \in Objs :
        p # hist[i].call.obj => After(i)[p] = hist[i].before[p]

C10_Witness ==
    /\ N = 3
    /\ hist[2].call.op = "ThrowStreamCopy"
    /\ hist[2].call.ex = Ref(1)
    /\ hist[3].before[1] = hist[2].before[1]
    /\ Call.op \in {"Append", "operator<<", "AppendEx"}
    /\ Call.obj = 2
    /\ desc[2] # Before[2]
    /\ desc[1] = hist[2].before[1]

====
